---- MODULE Spec2Model ----
(***************************************************************************)
(* SMART-on-FHIR launch page (src/unnamed/part_001, and its earlier        *)
(* variant src/unnamed/part_000) and the vitals page                       *)
(* (src/src/pages/vitals.js), modelled as one browser tab: the tab-scoped  *)
(* sessionStorage, the React state of the mounted page, and the async      *)
(* functions suspended at an await (one record per suspended function).    *)
(* Strings that the code builds by concatenation are sequences of their    *)
(* parts.                                                                  *)
(***************************************************************************)
EXTENDS Integers, Sequences, FiniteSets, TLC

\* ------------------------------------------------------------------ bounds
\* Async chains of the vitals page tracked at once (the mounted page's chain
\* plus chains that outlived the page instance that started them).
MaxChains == 1

\* Observations of the largest searched bundle (three pages of one category).
PagedEntries == 13

\* Bytes of the longest digest a code challenge is derived from.
MaxDigestLen == 3

\* ------------------------------------------------------------------ values
Null == "<null>"            \* JS null: getItem of a missing key, params.get of a missing parameter
Undefined == "<undefined>"  \* JS undefined: a field a JSON document does not carry

Truthy(v) == v # Null /\ v # Undefined /\ v # ""

\* sessionStorage.setItem stores the string conversion of its argument.
ToStorage(v) == IF v = Undefined THEN "undefined" ELSE IF v = Null THEN "null" ELSE v

Keys == {"code_verifier", "state", "issuer", "token_endpoint", "iss", "launch",
         "access_token", "refresh_token", "patient_data", "patient_id"}

EmptyStore == [k \in Keys |-> Null]

Variants == {"part_000", "part_001"}

Codes == {"c1"}
States == {"s1", "s2"}
Verifiers == {"v1", "v2"}
Issuers == {"iss1"}
Launches == {"l1"}

EmptyURL == [code |-> Null, state |-> Null, iss |-> Null, launch |-> Null]

\* The URLs the launch page is loaded with: none, some or all of the callback
\* parameters and of the launch parameters.
URLs ==
  {EmptyURL,
   [EmptyURL EXCEPT !.code = "c1"],
   [EmptyURL EXCEPT !.iss = "iss1"],
   [EmptyURL EXCEPT !.iss = "iss1", !.launch = "l1"],
   [EmptyURL EXCEPT !.code = "c1", !.iss = "iss1", !.launch = "l1"]}
  \cup {[EmptyURL EXCEPT !.code = "c1", !.state = s] : s \in States}
  \cup {[EmptyURL EXCEPT !.code = "c1", !.state = s, !.iss = "iss1", !.launch = "l1"] : s \in States}

Configs == [authorization_endpoint : {"auth1", Undefined}, token_endpoint : {"tok1", Undefined}]
NoConfig == [authorization_endpoint |-> Undefined, token_endpoint |-> Undefined]

TokenDatas == [access_token : {"at1"}, refresh_token : {Undefined, "rt1"}, patient : {Undefined, "p1"}]
RefreshDatas == [access_token : {"at2"}, refresh_token : {Undefined, "rt2"}]

\* Patient resources a patient read returns: the one asked for, or one that
\* carries another id.
Patients == {"Patient/p1", "Patient/p2"}
PatientId(p) == IF p = "Patient/p1" THEN "p1" ELSE IF p = "Patient/p2" THEN "p2" ELSE Undefined

\* JSON.stringify / JSON.parse of a patient resource.
Stringify(p) ==
  IF p = "Patient/p1" THEN "{\"id\":\"p1\"}"
  ELSE IF p = "Patient/p2" THEN "{\"id\":\"p2\"}" ELSE "null"
Parse(s) ==
  IF s = "{\"id\":\"p1\"}" THEN "Patient/p1"
  ELSE IF s = "{\"id\":\"p2\"}" THEN "Patient/p2" ELSE Null

\* Answers to a create POST: status and body text. A success may carry an
\* empty body.
CreateAnswers == {<<"201", "">>, <<"201", "{}">>, <<"401", "expired">>, <<"500", "failed">>}

\* ------------------------------------------------------------------ state
VARIABLES
  variant,     \* which launch page the deployment serves
  env,         \* NEXT_PUBLIC_CERNER_CLIENT_ID / _REDIRECT_URI are set
  loc,         \* what the tab shows: "blank", "home", "vitals", "auth"
  url,         \* query parameters of the current URL
  store,       \* sessionStorage
  home,        \* React state of the launch page
  hCall,       \* the launch page's suspended async function, with its locals
  hLog,        \* network requests and navigations the launch page made since it mounted
  vitals,      \* React state of the vitals page
  chains,      \* suspended async functions of the vitals page
  ended,       \* the vitals-page async function that finished last, as it finished
  authUrl,     \* the authorization URL the tab was last sent to
  navPending,  \* resetSession assigned window.location.href; the document is not yet unloaded
  last         \* the step just taken

vars == <<variant, env, loc, url, store, home, hCall, hLog, vitals, chains, ended, authUrl, navPending, last>>

HomeInit == [step |-> "waiting", issuer |-> "", launch |-> "", patientData |-> Null, error |-> <<>>]

Idle == [pc |-> "idle", issuerUrl |-> Null, launch |-> Null, config |-> NoConfig,
         codeVerifier |-> Null, code |-> Null, accessToken |-> Null, patientId |-> Null]

\* The Observation fields the vitals page reads. A timestamp is an instant
\* (0: the field is absent); an absent string field is Undefined; an absent
\* quantity or concept is NoQuantity or NoConcept; an absent component list
\* is <<>>; a boolean value is "true" or "false".
NoQuantity == [absent |-> TRUE]
NoConcept == [absent |-> TRUE]

Quantity(value, unit) == [value |-> value, unit |-> unit]

NoValue == [valueQuantity |-> NoQuantity, component |-> <<>>, valueCodeableConcept |-> NoConcept,
            valueString |-> Undefined, valueBoolean |-> Undefined]

Observation(id, display, code, effectiveDateTime, issued, value) ==
  [id |-> id, display |-> display, code |-> code,
   effectiveDateTime |-> effectiveDateTime, issued |-> issued, value |-> value]

\* useState(null) of selectedCategory.
NoCategory == [name |-> Null, count |-> 0, vitals |-> <<>>]

\* vitalsData is held as the list of the bundle's entries: getVitalCategories
\* reads nothing else, and returns [] for null and for a bundle without entry.
VitalsInit == [vitalsData |-> <<>>, loading |-> TRUE, error |-> <<>>, patientData |-> Null,
               submitting |-> FALSE,
               selectedCategory |-> NoCategory, categoryVitals |-> <<>>, currentPage |-> 0]

NoObservation == [code |-> Null, text |-> Null, subject |-> Null, value |-> Null,
                  unit |-> Null, ucum |-> Null]

Req(kind, u, token, a, b) ==
  [kind |-> kind, url |-> u, token |-> token, a |-> a, b |-> b, payload |-> NoObservation]

ReqObservation(u, token, observation) ==
  [kind |-> "create", url |-> u, token |-> token, a |-> Null, b |-> Null, payload |-> observation]

NoChain == [live |-> FALSE, pc |-> "none", accessToken |-> Null, patientId |-> Null,
            issuer |-> Null, observation |-> NoObservation, newAccessToken |-> Null,
            first |-> Null, error |-> <<>>, log |-> <<>>]

Forms == {[category |-> "Temperature", value |-> "37", unit |-> "Cel"],
          [category |-> "Pulse", value |-> "60", unit |-> "bpm"]}

\* Answers to the observation search, as the list of the bundle's entries: no
\* entry, or one observation.
Bundles ==
  {<<>>,
   <<Observation(1, "Pulse", "8867-4", 2, 0,
                 [NoValue EXCEPT !.valueQuantity = Quantity("60", "bpm")])>>}

Did(act, ok, status, body, live) ==
  [act |-> act, ok |-> ok, status |-> status, body |-> body, live |-> live]

\* Did, with the document a successful response carried.
DidWith(d, data) == d @@ [data |-> data]

NoAuthUrl == [endpoint |-> Null, launch |-> Null, state |-> Null, aud |-> Null,
              code_challenge |-> <<>>, code_challenge_method |-> Null]

\* Fail with a catch block that sets the message and forgets setStep("error").
FailWithoutStep(h, prefix, message) == [h EXCEPT !.error = <<prefix>> \o message]

\* ------------------------------------------------------------ launch page
\* catch blocks of the launch page: setError(`<prefix>${error.message}`); setStep("error").
Fail(h, prefix, message) == [h EXCEPT !.error = <<prefix>> \o message, !.step = "error"]

\* crypto.subtle.digest('SHA-256', ...) is not computed: the digest is a fixed
\* byte string per verifier, shortened to at most MaxDigestLen bytes (one,
\* two and three bytes give btoa's three paddings; SHA-256's 32 bytes pad as
\* two bytes do). A verifier other than "v1" and "v2" is named after its digest.
DigestBytes == {0, 62, 251, 255}

Digests == UNION {[1..n -> DigestBytes] : n \in 1..MaxDigestLen}

VerifierWith(digest) == "v" \o ToString(digest)

Sha256(codeVerifier) ==
  CASE codeVerifier = "v1" -> <<251, 255, 190>>
    [] codeVerifier = "v2" -> <<0, 16>>
    [] OTHER -> CHOOSE digest \in Digests : VerifierWith(digest) = codeVerifier

\* The alphabet of btoa. A string that is encoded is the sequence of its characters.
Base64Alphabet ==
  <<"A", "B", "C", "D", "E", "F", "G", "H", "I", "J", "K", "L", "M", "N", "O", "P",
    "Q", "R", "S", "T", "U", "V", "W", "X", "Y", "Z", "a", "b", "c", "d", "e", "f",
    "g", "h", "i", "j", "k", "l", "m", "n", "o", "p", "q", "r", "s", "t", "u", "v",
    "w", "x", "y", "z", "0", "1", "2", "3", "4", "5", "6", "7", "8", "9", "+", "/">>

\* btoa(String.fromCharCode(...bytes)): four characters per three bytes, the
\* last group padded with "=".
RECURSIVE btoa(_)
btoa(bytes) ==
  IF bytes = <<>> THEN <<>>
  ELSE LET n == Len(bytes)
           b1 == bytes[1]
           b2 == IF n >= 2 THEN bytes[2] ELSE 0
           b3 == IF n >= 3 THEN bytes[3] ELSE 0
       IN <<Base64Alphabet[(b1 \div 4) + 1],
            Base64Alphabet[(b1 % 4) * 16 + (b2 \div 16) + 1],
            IF n >= 2 THEN Base64Alphabet[(b2 % 16) * 4 + (b3 \div 64) + 1] ELSE "=",
            IF n >= 3 THEN Base64Alphabet[(b3 % 64) + 1] ELSE "=">>
          \o (IF n > 3 THEN btoa(SubSeq(bytes, 4, n)) ELSE <<>>)

\* String.prototype.replace with a global one-character pattern.
RECURSIVE replace(_, _, _)
replace(str, pattern, replacement) ==
  IF str = <<>> THEN <<>>
  ELSE (IF Head(str) = pattern THEN replacement ELSE <<Head(str)>>)
       \o replace(Tail(str), pattern, replacement)

\* generateCodeChallenge that keeps btoa's padding.
generateCodeChallengePadded(codeVerifier) ==
  replace(replace(btoa(Sha256(codeVerifier)), "+", <<"-">>), "/", <<"_">>)

\* The PKCE challenge of a verifier.
generateCodeChallenge(codeVerifier) ==
  replace(replace(replace(btoa(Sha256(codeVerifier)), "+", <<"-">>), "/", <<"_">>), "=", <<>>)

\* StateMatches with the comparison left out.
StateNotCompared(state, storedState) == TRUE

\* if (state !== storedState) throw new Error("State mismatch")
StateMatches(state, storedState) == state = storedState

\* Branch with the launch parameters tested before the callback parameters.
BranchLaunchFirst(u, st, v) ==
  IF Truthy(u.iss) /\ Truthy(u.launch) THEN "launch"
  ELSE IF Truthy(u.code) /\ Truthy(u.state) THEN "callback"
  ELSE IF v = "part_001" /\ Truthy(st["patient_data"]) /\ Truthy(st["iss"]) THEN "restored"
  ELSE "missing"

\* Entry dispatch of Home's useEffect: which branch a (re)load takes.
Branch(u, st, v) ==
  IF Truthy(u.code) /\ Truthy(u.state) THEN "callback"
  ELSE IF Truthy(u.iss) /\ Truthy(u.launch) THEN "launch"
  ELSE IF v = "part_001" /\ Truthy(st["patient_data"]) /\ Truthy(st["iss"]) THEN "restored"
  ELSE "missing"

\* handleOAuthCallback that starts the patient read together with the token
\* POST, from the patient id of the previous session.
handleOAuthCallbackFanOut(u, st) ==
  [home |-> [HomeInit EXCEPT !.step = "exchanging-token", !.issuer = st["iss"],
                             !.launch = st["launch"]],
   hCall |-> [Idle EXCEPT !.pc = "token", !.code = u.code, !.codeVerifier = st["code_verifier"]],
   hLog |-> <<Req("token", st["token_endpoint"], Null, u.code, st["code_verifier"]),
              Req("patient", st["issuer"], st["access_token"], st["patient_id"], Null)>>]

\* handleOAuthCallback up to its first await: [home, hCall, hLog].
handleOAuthCallback(u, st) ==
  LET h == [HomeInit EXCEPT !.step = "exchanging-token", !.issuer = st["iss"],
                            !.launch = st["launch"]]
  IN IF StateMatches(u.state, st["state"])
     THEN [home |-> h,
           hCall |-> [Idle EXCEPT !.pc = "token", !.code = u.code,
                                  !.codeVerifier = st["code_verifier"]],
           hLog |-> <<Req("token", st["token_endpoint"], Null, u.code, st["code_verifier"])>>]
     ELSE [home |-> Fail(h, "Token exchange failed: ", <<"State mismatch">>),
           hCall |-> Idle, hLog |-> <<>>]

\* discoverEndpoints up to its first await.
discoverEndpoints(u) ==
  [home |-> [HomeInit EXCEPT !.issuer = u.iss, !.launch = u.launch, !.step = "discovering"],
   hCall |-> [Idle EXCEPT !.pc = "discovery", !.issuerUrl = u.iss, !.launch = u.launch],
   hLog |-> <<Req("discovery", u.iss, Null, Null, Null)>>]

\* RestoreFromCache that reads the snapshot again from the server instead of showing it.
RestoreByFetching(st) ==
  [home |-> [HomeInit EXCEPT !.issuer = st["iss"], !.step = "fetching-patient"],
   hCall |-> [Idle EXCEPT !.pc = "patient", !.accessToken = st["access_token"],
                          !.patientId = st["patient_id"]],
   hLog |-> <<Req("patient", st["issuer"], st["access_token"], st["patient_id"], Null)>>]

\* Backward navigation: the cached snapshot is shown again.
RestoreFromCache(st) ==
  [home |-> [HomeInit EXCEPT !.patientData = Parse(st["patient_data"]), !.issuer = st["iss"],
                             !.step = "success"],
   hCall |-> Idle, hLog |-> <<>>]

MissingParameters ==
  [home |-> Fail(HomeInit, "Missing required parameters. Please launch from EHR.", <<>>),
   hCall |-> Idle, hLog |-> <<>>]

\* Home's useEffect once router.isReady.
useEffect(u, st, v) ==
  LET b == Branch(u, st, v)
  IN IF b = "callback" THEN handleOAuthCallback(u, st)
     ELSE IF b = "launch" THEN discoverEndpoints(u)
     ELSE IF b = "restored" THEN RestoreFromCache(st)
     ELSE MissingParameters

\* The launch page is mounted with query parameters u.
MountHome(u) ==
  LET r == useEffect(u, store, variant)
  IN /\ loc' = "home"
     /\ url' = u
     /\ home' = r.home
     /\ hCall' = r.hCall
     /\ hLog' = r.hLog
     /\ vitals' = VitalsInit
     /\ UNCHANGED <<variant, env, store, authUrl>>

\* A full page load of the launch page (EHR launch, authorization server's
\* redirect, a typed or replayed URL): every suspended function of the old
\* document is gone.
PageLoad(u) ==
  /\ ~navPending
  /\ MountHome(u)
  /\ chains' = <<>>
  /\ ended' = NoChain
  /\ navPending' = FALSE
  /\ last' = Did("PageLoad", TRUE, Null, Null, TRUE)

\* The load of window.location.origin that resetSession started.
ReloadAfterReset ==
  /\ navPending
  /\ MountHome(EmptyURL)
  /\ chains' = <<>>
  /\ ended' = NoChain
  /\ navPending' = FALSE
  /\ last' = Did("ReloadAfterReset", TRUE, Null, Null, TRUE)

\* buildAuthStore placed after the assignment of window.location.href: the
\* verifier and the state are not written when the document is left.
buildAuthStoreLate(st, codeVerifier, state, issuerUrl, config, launch) ==
  [st EXCEPT !["issuer"] = ToStorage(issuerUrl),
             !["token_endpoint"] = ToStorage(config.token_endpoint),
             !["iss"] = ToStorage(issuerUrl),
             !["launch"] = ToStorage(launch)]

\* buildAuthStore that keeps a verifier sessionStorage already holds.
buildAuthStoreKeepingVerifier(st, codeVerifier, state, issuerUrl, config, launch) ==
  [st EXCEPT !["code_verifier"] = IF Truthy(st["code_verifier"]) THEN st["code_verifier"]
                                  ELSE ToStorage(codeVerifier),
             !["state"] = ToStorage(state),
             !["issuer"] = ToStorage(issuerUrl),
             !["token_endpoint"] = ToStorage(config.token_endpoint),
             !["iss"] = ToStorage(issuerUrl),
             !["launch"] = ToStorage(launch)]

\* sessionStorage writes of buildAuthUrl.
buildAuthStore(st, codeVerifier, state, issuerUrl, config, launch) ==
  [st EXCEPT !["code_verifier"] = ToStorage(codeVerifier),
             !["state"] = ToStorage(state),
             !["issuer"] = ToStorage(issuerUrl),
             !["token_endpoint"] = ToStorage(config.token_endpoint),
             !["iss"] = ToStorage(issuerUrl),
             !["launch"] = ToStorage(launch)]

\* The authorization URL buildAuthUrl navigates to.
buildAuthParams(v, codeChallenge, state, issuerUrl, config, launch) ==
  [endpoint |-> config.authorization_endpoint,
   launch |-> IF v = "part_001" THEN launch ELSE Null,
   state |-> state, aud |-> issuerUrl,
   code_challenge |-> codeChallenge, code_challenge_method |-> "S256"]

\* EnvMissing that finds the client identity present whatever the environment.
EnvNeverMissing(e) == FALSE

\* if (!clientId || !redirectUri) throw new Error("Missing environment variables")
EnvMissing(e) == ~e

\* DiscoveryResponse whose failure path records the issuer it could not reach.
DiscoveryResponseKeepingIssuer(ok, status, config) ==
  /\ loc = "home" /\ hCall.pc = "discovery"
  /\ IF ~ok
     THEN /\ home' = Fail(home, "Discovery failed: ", <<"Failed to discover endpoints: ", status>>)
          /\ hCall' = Idle
          /\ store' = [store EXCEPT !["issuer"] = ToStorage(hCall.issuerUrl)]
     ELSE IF EnvMissing(env)
     THEN /\ home' = Fail([home EXCEPT !.step = "building-auth"], "Auth URL build failed: ",
                          <<"Missing environment variables">>)
          /\ hCall' = Idle
          /\ UNCHANGED store
     ELSE /\ home' = [home EXCEPT !.step = "building-auth"]
          /\ \E cv \in Verifiers :
               hCall' = [hCall EXCEPT !.pc = "challenge", !.config = config, !.codeVerifier = cv]
          /\ UNCHANGED store
  /\ last' = DidWith(Did("DiscoveryResponse", ok, status, Null, TRUE), IF ok THEN config ELSE Null)
  /\ UNCHANGED <<variant, env, loc, url, hLog, vitals, chains, ended, authUrl, navPending>>

\* The discovery fetch resolved; on success buildAuthUrl runs up to its await.
DiscoveryResponse(ok, status, config) ==
  /\ loc = "home" /\ hCall.pc = "discovery"
  /\ IF ~ok
     THEN /\ home' = Fail(home, "Discovery failed: ", <<"Failed to discover endpoints: ", status>>)
          /\ hCall' = Idle
     ELSE IF EnvMissing(env)
     THEN /\ home' = Fail([home EXCEPT !.step = "building-auth"], "Auth URL build failed: ",
                          <<"Missing environment variables">>)
          /\ hCall' = Idle
     ELSE /\ home' = [home EXCEPT !.step = "building-auth"]
          /\ \E cv \in Verifiers :
               hCall' = [hCall EXCEPT !.pc = "challenge", !.config = config, !.codeVerifier = cv]
  /\ last' = DidWith(Did("DiscoveryResponse", ok, status, Null, TRUE), IF ok THEN config ELSE Null)
  /\ UNCHANGED <<variant, env, loc, url, store, hLog, vitals, chains, ended, authUrl, navPending>>

\* crypto.subtle.digest settled; on success buildAuthUrl stores the launch
\* context and then assigns window.location.href.
ChallengeResponse(ok, state) ==
  /\ loc = "home" /\ hCall.pc = "challenge"
  /\ IF ok
     THEN /\ store' = buildAuthStore(store, hCall.codeVerifier, state, hCall.issuerUrl,
                                     hCall.config, hCall.launch)
          /\ home' = [home EXCEPT !.step = "redirecting"]
          /\ authUrl' = buildAuthParams(variant, generateCodeChallenge(hCall.codeVerifier), state,
                                        hCall.issuerUrl, hCall.config, hCall.launch)
          /\ hLog' = Append(hLog, Req("navigate", hCall.config.authorization_endpoint, Null, state, Null))
          /\ loc' = "auth"
     ELSE /\ home' = Fail(home, "Auth URL build failed: ", <<"digest unavailable">>)
          /\ UNCHANGED <<store, authUrl, hLog, loc>>
  /\ hCall' = Idle
  /\ last' = Did("ChallengeResponse", ok, Null, Null, TRUE)
  /\ UNCHANGED <<variant, env, url, vitals, chains, ended, navPending>>

\* fetchPatientData up to its await.
fetchPatientData(h, st, accessToken, patientId) ==
  [home |-> [h EXCEPT !.step = "fetching-patient"],
   hCall |-> [Idle EXCEPT !.pc = "patient", !.accessToken = accessToken, !.patientId = patientId],
   req |-> Req("patient", st["issuer"], accessToken, patientId, Null)]

\* The token POST resolved.
TokenResponse(ok, status, body, tokenData) ==
  /\ loc = "home" /\ hCall.pc = "token"
  /\ IF ~ok
     THEN /\ home' = Fail(home, "Token exchange failed: ", <<"Token exchange failed: ", status, " ", body>>)
          /\ hCall' = Idle
          /\ UNCHANGED <<store, hLog>>
     ELSE IF variant = "part_000"
     THEN /\ home' = [home EXCEPT !.step = "success"]
          /\ hCall' = Idle
          /\ UNCHANGED <<store, hLog>>
     ELSE /\ store' = [store EXCEPT !["access_token"] = ToStorage(tokenData.access_token)]
          /\ IF Truthy(tokenData.patient)
             THEN LET r == fetchPatientData(home, store', tokenData.access_token, tokenData.patient)
                  IN /\ home' = r.home
                     /\ hCall' = r.hCall
                     /\ hLog' = Append(hLog, r.req)
             ELSE /\ home' = [home EXCEPT
                       !.error = <<"No patient context found in token. This app must be launched with a patient context.">>,
                       !.step = "error"]
                  /\ hCall' = Idle
                  /\ UNCHANGED hLog
  /\ last' = DidWith(Did("TokenResponse", ok, status, body, TRUE), IF ok THEN tokenData ELSE Null)
  /\ UNCHANGED <<variant, env, loc, url, vitals, chains, ended, authUrl, navPending>>

\* The patient read resolved.
PatientResponse(ok, status, patient) ==
  /\ loc = "home" /\ hCall.pc = "patient"
  /\ IF ~ok
     THEN /\ home' = Fail(home, "Patient fetch failed: ", <<"Failed to fetch patient: ", status>>)
          /\ UNCHANGED store
     ELSE /\ home' = [home EXCEPT !.patientData = patient, !.step = "success"]
          /\ store' = [store EXCEPT !["patient_data"] = Stringify(patient),
                                    !["patient_id"] = ToStorage(PatientId(patient))]
  /\ hCall' = Idle
  /\ last' = Did("PatientResponse", ok, status, Null, TRUE)
  /\ UNCHANGED <<variant, env, loc, url, hLog, vitals, chains, ended, authUrl, navPending>>

\* The view that carries the reset button is rendered.
ResetShown ==
  \/ home.step = "error"
  \/ home.step = "success" /\ (IF variant = "part_001" THEN home.patientData # Null
                               ELSE home.patientData = Null)

\* resetSession: clear the store, reset the React state, reload the origin.
resetSession ==
  /\ loc = "home" /\ ~navPending /\ ResetShown
  /\ store' = EmptyStore
  /\ home' = [home EXCEPT !.step = "waiting", !.error = <<>>, !.patientData = Null]
  /\ navPending' = TRUE
  /\ last' = Did("resetSession", TRUE, Null, Null, TRUE)
  /\ UNCHANGED <<variant, env, loc, url, hCall, hLog, vitals, chains, ended, authUrl>>

\* ------------------------------------------------------------ vitals page
getLoincCode(category) ==
  CASE category = "Blood Pressure" -> "8480-6"
    [] category = "Temperature" -> "8331-1"
    [] category = "Heart Rate" -> "8867-4"
    [] category = "Respiratory Rate" -> "9279-1"
    [] category = "Oxygen Saturation" -> "703498"
    [] category = "Weight" -> "29463-7"
    [] category = "Height" -> "8302-2"
    [] category = "Body Mass Index" -> "39156-5"
    [] OTHER -> "unknown"

getUcumCode(unit) ==
  CASE unit = "mmHg" -> "mm[Hg]"
    [] unit = "bpm" -> "/min"
    [] unit = "°C" -> "Cel"
    [] unit = "°F" -> "[degF]"
    [] unit = "kg" -> "kg"
    [] unit = "lbs" -> "[lb_av]"
    [] unit = "cm" -> "cm"
    [] unit = "in" -> "[in_i]"
    [] unit = "%" -> "%"
    [] OTHER -> unit

\* The Observation resource createNewVital posts.
BuildObservation(form, patientId) ==
  [code |-> getLoincCode(form.category), text |-> form.category, subject |-> patientId,
   value |-> form.value, unit |-> form.unit, ucum |-> getUcumCode(form.unit)]

RemoveAt(seq, i) == SubSeq(seq, 1, i - 1) \o SubSeq(seq, i + 1, Len(seq))

Detach(seq) == [i \in DOMAIN seq |-> [seq[i] EXCEPT !.live = FALSE]]

\* State setters of the vitals page reach the component only while the
\* instance that started the async function is still mounted.
Apply(c, v) == IF c.live THEN v ELSE vitals

VITALS_PER_PAGE == 5

\* CategoryOf that prefers the code to the display label.
CategoryOfCodeFirst(observation) ==
  IF Truthy(observation.code) THEN observation.code
  ELSE IF Truthy(observation.display) THEN observation.display
  ELSE "Unknown"

\* code?.display || code?.code || 'Unknown', for code = observation.code?.coding?.[0].
CategoryOf(observation) ==
  IF Truthy(observation.display) THEN observation.display
  ELSE IF Truthy(observation.code) THEN observation.code
  ELSE "Unknown"

\* EffectiveTime without the fallback to issued.
EffectiveTimeOnly(observation) == observation.effectiveDateTime

\* new Date(o.effectiveDateTime || o.issued)
EffectiveTime(observation) ==
  IF observation.effectiveDateTime # 0 THEN observation.effectiveDateTime ELSE observation.issued

\* Array.prototype.sort with the comparator (a, b) => time(b) - time(a): a
\* stable sort, most recent first.
RECURSIVE SortVitals(_)
SortVitals(seq) ==
  IF seq = <<>> THEN <<>>
  ELSE LET sorted == SortVitals(SubSeq(seq, 1, Len(seq) - 1))
           x == seq[Len(seq)]
           before == {i \in DOMAIN sorted : EffectiveTime(sorted[i]) >= EffectiveTime(x)}
           n == Cardinality(before)
       IN SubSeq(sorted, 1, n) \o <<x>> \o SubSeq(sorted, n + 1, Len(sorted))

\* The keys of the categories object, in the order they were added.
RECURSIVE CategoryNames(_)
CategoryNames(entry) ==
  IF entry = <<>> THEN <<>>
  ELSE LET names == CategoryNames(SubSeq(entry, 1, Len(entry) - 1))
           name == CategoryOf(entry[Len(entry)])
       IN IF \E i \in DOMAIN names : names[i] = name THEN names ELSE Append(names, name)

getVitalCategories(entry) ==
  LET names == CategoryNames(entry)
  IN [k \in DOMAIN names |->
        LET pushed == SelectSeq(entry, LAMBDA o : CategoryOf(o) = names[k])
        IN [name |-> names[k], count |-> Len(pushed), vitals |-> SortVitals(pushed)]]

\* Array.prototype.slice(start, end), indices from 0, end exclusive.
Slice(seq, start, end) ==
  SubSeq(seq, start + 1, IF end < Len(seq) THEN end ELSE Len(seq))

\* selectCategory that leaves the page index as it was.
SelectKeepingPage(v, category) ==
  [v EXCEPT !.selectedCategory = category,
            !.categoryVitals = Slice(category.vitals, 0, VITALS_PER_PAGE)]

\* State updates of selectCategory.
Select(v, category) ==
  [v EXCEPT !.selectedCategory = category, !.currentPage = 0,
            !.categoryVitals = Slice(category.vitals, 0, VITALS_PER_PAGE)]

hasMoreVitals(v) ==
  IF v.selectedCategory = NoCategory THEN FALSE
  ELSE (v.currentPage + 1) * VITALS_PER_PAGE < Len(v.selectedCategory.vitals)

\* loadMoreVitals that advances also when the next window is empty.
LoadMoreUnguarded(v) ==
  IF v.selectedCategory = NoCategory THEN v
  ELSE [v EXCEPT !.categoryVitals = Slice(v.selectedCategory.vitals,
                                          (v.currentPage + 1) * VITALS_PER_PAGE,
                                          (v.currentPage + 1) * VITALS_PER_PAGE + VITALS_PER_PAGE),
                 !.currentPage = v.currentPage + 1]

\* State updates of loadMoreVitals.
LoadMore(v) ==
  IF v.selectedCategory = NoCategory THEN v
  ELSE LET nextPage == v.currentPage + 1
           startIndex == nextPage * VITALS_PER_PAGE
           endIndex == startIndex + VITALS_PER_PAGE
           newVitals == Slice(v.selectedCategory.vitals, startIndex, endIndex)
       IN IF Len(newVitals) > 0
          THEN [v EXCEPT !.categoryVitals = newVitals, !.currentPage = nextPage]
          ELSE v

\* LoadPrevious that keeps the window of the page it leaves.
LoadPreviousKeepingWindow(v) == [v EXCEPT !.currentPage = v.currentPage - 1]

\* State updates of the "Previous 5" button.
LoadPrevious(v) ==
  LET prevPage == v.currentPage - 1
      startIndex == prevPage * VITALS_PER_PAGE
      endIndex == startIndex + VITALS_PER_PAGE
  IN [v EXCEPT !.categoryVitals = Slice(v.selectedCategory.vitals, startIndex, endIndex),
               !.currentPage = prevPage]

\* `${value.value} ${value.unit || ''}`
FormatQuantity(q) == <<q.value, " ", IF Truthy(q.unit) THEN q.unit ELSE "">>

\* value && value.value !== undefined
HasValue(q) == q # NoQuantity /\ q.value # Undefined

\* Array.prototype.join
RECURSIVE Join(_, _)
Join(strings, separator) ==
  IF strings = <<>> THEN <<>>
  ELSE IF Len(strings) = 1 THEN strings[1]
  ELSE strings[1] \o <<separator>> \o Join(Tail(strings), separator)

\* formatVitalValue with the component list tested before the single quantity.
formatComponentsFirst(value) ==
  IF Len(value.component) >= 1 /\ HasValue(value.component[1].valueQuantity)
  THEN FormatQuantity(value.component[1].valueQuantity)
  ELSE IF HasValue(value.valueQuantity) THEN FormatQuantity(value.valueQuantity)
  ELSE <<"No value available">>

\* formatVitalValue, of the value fields of an observation.
formatVitalValue(value) ==
  IF HasValue(value.valueQuantity) THEN FormatQuantity(value.valueQuantity)
  ELSE IF Len(value.component) >= 1 /\ HasValue(value.component[1].valueQuantity)
  THEN FormatQuantity(value.component[1].valueQuantity)
  ELSE LET withValue == SelectSeq(value.component, LAMBDA comp : HasValue(comp.valueQuantity))
           components == [i \in DOMAIN withValue |-> FormatQuantity(withValue[i].valueQuantity)]
       IN IF Len(value.component) > 1 /\ Len(components) > 0 THEN Join(components, " / ")
          ELSE IF value.valueCodeableConcept # NoConcept
          THEN IF Truthy(value.valueCodeableConcept.text) THEN <<value.valueCodeableConcept.text>>
               ELSE IF Truthy(value.valueCodeableConcept.display)
               THEN <<value.valueCodeableConcept.display>>
               ELSE <<"Coded value">>
          ELSE IF Truthy(value.valueString) THEN <<value.valueString>>
          ELSE IF value.valueBoolean # Undefined
          THEN IF value.valueBoolean = "true" THEN <<"Yes">> ELSE <<"No">>
          ELSE <<"No value available">>

\* getCurrentPageInfo: `Showing ${start}-${end} of ${total}`, as <<start, end, total>>.
getCurrentPageInfo(v) ==
  LET total == Len(v.selectedCategory.vitals)
      start == v.currentPage * VITALS_PER_PAGE + 1
      end == IF (v.currentPage + 1) * VITALS_PER_PAGE < total
             THEN (v.currentPage + 1) * VITALS_PER_PAGE ELSE total
  IN <<start, end, total>>

\* Neither the loading view nor the error view is rendered.
MainViewShown == loc = "vitals" /\ ~vitals.loading /\ vitals.error = <<>>

\* The category buttons, the add form and the selected category's panel are rendered.
CategoriesShown == MainViewShown /\ getVitalCategories(vitals.vitalsData) # <<>>

\* A category button is clicked.
selectCategory(k) ==
  /\ CategoriesShown
  /\ k \in DOMAIN getVitalCategories(vitals.vitalsData)
  /\ vitals' = Select(vitals, getVitalCategories(vitals.vitalsData)[k])
  /\ last' = DidWith(Did("selectCategory", TRUE, Null, Null, TRUE),
                      [name |-> getVitalCategories(vitals.vitalsData)[k].name,
                       from |-> vitals.currentPage])
  /\ UNCHANGED <<variant, env, loc, url, store, home, hCall, hLog, chains, ended, authUrl, navPending>>

\* loadMoreVitals is called ("Load next 5", rendered while hasMoreVitals()).
loadMoreVitals ==
  /\ CategoriesShown
  /\ vitals' = LoadMore(vitals)
  /\ last' = Did("loadMoreVitals", hasMoreVitals(vitals), Null, Null, TRUE)
  /\ UNCHANGED <<variant, env, loc, url, store, home, hCall, hLog, chains, ended, authUrl, navPending>>

\* "Previous 5" is clicked.
loadPreviousVitals ==
  /\ CategoriesShown
  /\ vitals.selectedCategory # NoCategory /\ vitals.currentPage > 0
  /\ vitals' = LoadPrevious(vitals)
  /\ last' = Did("loadPreviousVitals", TRUE, Null, Null, TRUE)
  /\ UNCHANGED <<variant, env, loc, url, store, home, hCall, hLog, chains, ended, authUrl, navPending>>

\* fetchAllVitals that searches with the token the submission started with.
fetchAllVitalsFirstToken(c, accessToken) ==
  [c EXCEPT !.pc = "fetch",
            !.log = Append(c.log, Req("observations", c.issuer, c.accessToken, c.patientId, Null))]

\* fetchAllVitals up to its await, run by the async function c.
fetchAllVitals(c, accessToken) ==
  [c EXCEPT !.pc = "fetch",
            !.log = Append(c.log, Req("observations", c.issuer, accessToken, c.patientId, Null))]

\* NoPatientSession that looks at the access token only.
NoAccessToken(st) == ~Truthy(st["access_token"])

\* if (!accessToken || !patientId || !issuer)
NoPatientSession(st) ==
  ~Truthy(st["access_token"]) \/ ~Truthy(st["patient_id"]) \/ ~Truthy(st["issuer"])

\* Vitals' useEffect on mount, beside the async functions that are still
\* running, fewer than n of them.
MountVitalsWithin(running, n) ==
  /\ loc' = "vitals"
  /\ url' = EmptyURL
  /\ home' = HomeInit
  /\ hCall' = Idle
  /\ hLog' = <<>>
  /\ IF NoPatientSession(store)
     THEN /\ vitals' = [VitalsInit EXCEPT !.error = <<"No patient session found. Please launch from EHR.">>,
                                          !.loading = FALSE]
          /\ chains' = running
     ELSE /\ Len(running) < n
          /\ vitals' = [VitalsInit EXCEPT !.patientData =
                           IF Truthy(store["patient_data"]) THEN Parse(store["patient_data"]) ELSE Null]
          /\ chains' = Append(running,
                         fetchAllVitals([NoChain EXCEPT !.live = TRUE,
                                                        !.accessToken = store["access_token"],
                                                        !.patientId = store["patient_id"],
                                                        !.issuer = store["issuer"]],
                                        store["access_token"]))
  /\ UNCHANGED <<variant, env, store, ended, authUrl, navPending>>

\* router.push('/vitals') from the demographics view, with fewer than n
\* async chains tracked.
ViewVitalsWithin(n) ==
  /\ loc = "home" /\ ~navPending
  /\ variant = "part_001" /\ home.step = "success" /\ home.patientData # Null
  /\ MountVitalsWithin(chains, n)
  /\ last' = Did("ViewVitals", TRUE, Null, Null, TRUE)

ViewVitals == ViewVitalsWithin(MaxChains)

\* A full page load of the vitals page (typed URL, bookmark, reload): every
\* suspended function of the old document is gone.
LoadVitals ==
  /\ ~navPending
  /\ MountVitalsWithin(<<>>, MaxChains)
  /\ last' = Did("LoadVitals", TRUE, Null, Null, TRUE)

\* router.push('/') (goBack, or the browser's back button): the vitals page
\* unmounts, its suspended functions keep running, the launch page mounts.
goBack ==
  /\ loc = "vitals"
  /\ MountHome(EmptyURL)
  /\ chains' = Detach(chains)
  /\ last' = Did("goBack", TRUE, Null, Null, TRUE)
  /\ UNCHANGED <<ended, navPending>>

\* CatchCreate without setSubmitting(false).
CatchCreateStillSubmitting(v, message) ==
  [v EXCEPT !.error = <<"Failed to create vital: ">> \o message]

\* catch block of createNewVital.
CatchCreate(v, message) ==
  [v EXCEPT !.error = <<"Failed to create vital: ">> \o message, !.submitting = FALSE]

\* The success path of createNewVital after a create POST succeeded.
CreateSucceeded(v) == [v EXCEPT !.submitting = FALSE, !.loading = TRUE]

\* createNewVital up to its first await (the Create button is enabled), with
\* fewer than n async chains tracked.
createNewVitalWithin(n, form) ==
  /\ CategoriesShown /\ ~vitals.submitting
  /\ IF ~Truthy(store["access_token"]) \/ ~Truthy(store["patient_id"]) \/ ~Truthy(store["issuer"])
     THEN /\ vitals' = CatchCreate(vitals, <<"Missing authentication data">>)
          /\ UNCHANGED chains
     ELSE /\ Len(chains) < n
          /\ vitals' = [vitals EXCEPT !.submitting = TRUE]
          /\ LET observation == BuildObservation(form, store["patient_id"])
             IN chains' = Append(chains,
                            [NoChain EXCEPT !.live = TRUE, !.pc = "create",
                                            !.accessToken = store["access_token"],
                                            !.patientId = store["patient_id"],
                                            !.issuer = store["issuer"],
                                            !.observation = observation,
                                            !.log = <<ReqObservation(store["issuer"],
                                                        store["access_token"], observation)>>])
  /\ last' = Did("createNewVital", TRUE, Null, Null, TRUE)
  /\ UNCHANGED <<variant, env, loc, url, store, home, hCall, hLog, ended, authUrl, navPending>>

createNewVital(form) == createNewVitalWithin(MaxChains, form)

\* The async function chains[i] ends with an error message (or <<>>).
Finish(i, message) ==
  /\ ended' = [chains[i] EXCEPT !.pc = "ended", !.error = message]
  /\ chains' = RemoveAt(chains, i)

\* IsUnauthorized that takes every failure for an expired token.
IsAnyFailure(status) == status # "201"

\* response.status === 401
IsUnauthorized(status) == status = "401"

\* The first create POST resolved.
CreateResponse(i, status, body) ==
  /\ i \in DOMAIN chains /\ chains[i].pc = "create"
  /\ LET c == [chains[i] EXCEPT !.first = status]
     IN IF status = "201"
        THEN /\ vitals' = Apply(c, CreateSucceeded(vitals))
             /\ chains' = [chains EXCEPT ![i] = fetchAllVitals(c, c.accessToken)]
             /\ UNCHANGED ended
        ELSE IF IsUnauthorized(status)
        THEN IF ~Truthy(store["refresh_token"]) \/ ~Truthy(store["token_endpoint"])
             THEN LET message == <<"Token refresh failed: ", "No refresh token available">>
                  IN /\ vitals' = Apply(c, CatchCreate(vitals, message))
                     /\ ended' = [c EXCEPT !.pc = "ended", !.error = message]
                     /\ chains' = RemoveAt(chains, i)
             ELSE /\ chains' = [chains EXCEPT ![i] =
                       [c EXCEPT !.pc = "refresh",
                                 !.log = Append(c.log, Req("refresh", store["token_endpoint"], Null,
                                                          store["refresh_token"], Null))]]
                  /\ UNCHANGED <<vitals, ended>>
        ELSE LET message == <<"Failed to create vital: ", status, " ", body>>
             IN /\ vitals' = Apply(c, CatchCreate(vitals, message))
                /\ ended' = [c EXCEPT !.pc = "ended", !.error = message]
                /\ chains' = RemoveAt(chains, i)
  /\ last' = Did("CreateResponse", status = "201", status, body, chains[i].live)
  /\ UNCHANGED <<variant, env, loc, url, store, home, hCall, hLog, authUrl, navPending>>

\* refreshStore that writes refresh_token whether or not the response carries one.
refreshStoreAlways(st, tokenData) ==
  [st EXCEPT !["access_token"] = ToStorage(tokenData.access_token),
             !["refresh_token"] = ToStorage(tokenData.refresh_token)]

\* sessionStorage writes of refreshAccessToken after a successful response.
refreshStore(st, tokenData) ==
  LET st1 == [st EXCEPT !["access_token"] = ToStorage(tokenData.access_token)]
  IN IF Truthy(tokenData.refresh_token)
     THEN [st1 EXCEPT !["refresh_token"] = ToStorage(tokenData.refresh_token)]
     ELSE st1

\* The refresh POST resolved; on success the create POST is retried.
RefreshResponse(i, ok, status, tokenData) ==
  /\ i \in DOMAIN chains /\ chains[i].pc = "refresh"
  /\ LET c == chains[i]
     IN IF ~ok
        THEN LET message == <<"Token refresh failed: ", "Token refresh failed: ", status>>
             IN /\ vitals' = Apply(c, CatchCreate(vitals, message))
                /\ Finish(i, message)
                /\ UNCHANGED store
        ELSE /\ store' = refreshStore(store, tokenData)
             /\ chains' = [chains EXCEPT ![i] =
                  [c EXCEPT !.pc = "retry", !.newAccessToken = tokenData.access_token,
                            !.log = Append(c.log, ReqObservation(c.issuer, tokenData.access_token,
                                                                 c.observation))]]
             /\ UNCHANGED <<vitals, ended>>
  /\ last' = DidWith(Did("RefreshResponse", ok, status, Null, chains[i].live),
                      IF ok THEN tokenData ELSE Null)
  /\ UNCHANGED <<variant, env, loc, url, home, hCall, hLog, authUrl, navPending>>

\* The error createNewVital reports when the retried POST fails.
RetryFailure(status, body) ==
  <<"Token refresh failed: ", "Failed to create vital after token refresh: ", status, " ", body>>

\* The retried create POST resolved.
RetryResponse(i, status, body) ==
  /\ i \in DOMAIN chains /\ chains[i].pc = "retry"
  /\ LET c == chains[i]
     IN IF status = "201"
        THEN /\ vitals' = Apply(c, CreateSucceeded(vitals))
             /\ chains' = [chains EXCEPT ![i] = fetchAllVitals(c, c.newAccessToken)]
             /\ UNCHANGED ended
        ELSE /\ vitals' = Apply(c, CatchCreate(vitals, RetryFailure(status, body)))
             /\ Finish(i, RetryFailure(status, body))
  /\ last' = Did("RetryResponse", status = "201", status, body, chains[i].live)
  /\ UNCHANGED <<variant, env, loc, url, store, home, hCall, hLog, authUrl, navPending>>

\* The observation search resolved.
ObservationsResponse(i, ok, status, bundle) ==
  /\ i \in DOMAIN chains /\ chains[i].pc = "fetch"
  /\ LET c == chains[i]
     IN IF ok
        THEN /\ vitals' = Apply(c, [vitals EXCEPT !.vitalsData = bundle, !.loading = FALSE])
             /\ Finish(i, <<>>)
        ELSE LET message == <<"Vitals fetch failed: ", "Failed to fetch vitals: ", status>>
             IN /\ vitals' = Apply(c, [vitals EXCEPT !.error = message, !.loading = FALSE])
                /\ Finish(i, message)
  /\ last' = Did("ObservationsResponse", ok, status, Null, chains[i].live)
  /\ UNCHANGED <<variant, env, loc, url, store, home, hCall, hLog, authUrl, navPending>>

\* --------------------------------------------------------- specifications
Start ==
  /\ variant \in Variants
  /\ env \in BOOLEAN
  /\ loc = "blank"
  /\ url = EmptyURL
  /\ home = HomeInit
  /\ hCall = Idle
  /\ hLog = <<>>
  /\ vitals = VitalsInit
  /\ chains = <<>>
  /\ ended = NoChain
  /\ authUrl = NoAuthUrl
  /\ navPending = FALSE
  /\ last = Did("Init", TRUE, Null, Null, TRUE)

\* A fresh tab: sessionStorage is empty.
Init == Start /\ store = EmptyStore

Launch ==
  \/ \E u \in URLs : PageLoad(u)
  \/ ReloadAfterReset
  \/ \E ok \in BOOLEAN, status \in {"500"}, config \in Configs : DiscoveryResponse(ok, status, config)
  \/ \E ok \in BOOLEAN, state \in States : ChallengeResponse(ok, state)
  \/ \E ok \in BOOLEAN, status \in {"400"}, body \in {"invalid_grant"}, tokenData \in TokenDatas :
       TokenResponse(ok, status, body, tokenData)
  \/ \E ok \in BOOLEAN, status \in {"404"}, patient \in Patients : PatientResponse(ok, status, patient)
  \/ resetSession

Browse ==
  \/ ViewVitals
  \/ goBack
  \/ \E form \in Forms : createNewVital(form)
  \/ \E i \in 1..MaxChains, answer \in CreateAnswers : CreateResponse(i, answer[1], answer[2])
  \/ \E i \in 1..MaxChains, ok \in BOOLEAN, status \in {"500"}, bundle \in Bundles :
       ObservationsResponse(i, ok, status, bundle)

Refresh ==
  \/ \E i \in 1..MaxChains, ok \in BOOLEAN, status \in {"400"}, tokenData \in RefreshDatas :
       RefreshResponse(i, ok, status, tokenData)
  \/ \E i \in 1..MaxChains, answer \in CreateAnswers : RetryResponse(i, answer[1], answer[2])

\* The steps a tab that starts fresh can take. No launch page writes
\* refresh_token, so refreshAccessToken never gets to its POST and the steps
\* of Refresh are never enabled (RefreshNeverIssued, under SpecFreshAll).
Next == Launch \/ Browse

Spec == Init /\ [][Next]_vars

NextSession == Launch \/ Browse \/ Refresh

SpecFreshAll == Init /\ [][NextSession]_vars

RefreshNeverIssued == \A i \in DOMAIN chains : chains[i].pc \notin {"refresh", "retry"}

\* The session a completed launch of part_001 leaves in sessionStorage, with
\* the refresh token that refreshAccessToken reads (vitals.js:210) present or not.
Session(refreshToken) ==
  [EmptyStore EXCEPT !["code_verifier"] = "v1", !["state"] = "s1", !["issuer"] = "iss1",
                     !["token_endpoint"] = "tok1", !["iss"] = "iss1", !["launch"] = "l1",
                     !["access_token"] = "at1", !["patient_data"] = Stringify("Patient/p1"),
                     !["patient_id"] = "p1", !["refresh_token"] = refreshToken]

SessionStores == {Session(Null), Session("rt1")}

\* A tab that holds a session and is used without a new launch: the root
\* page is revisited, the vitals page is used, the session is reset.
InitSession == Start /\ variant = "part_001" /\ env /\ store \in SessionStores

Revisit == PageLoad(EmptyURL)

NextInSession == Revisit \/ ReloadAfterReset \/ resetSession \/ Browse \/ Refresh

SpecSession == InitSession /\ [][NextInSession]_vars

\* Every outstanding network call of a submission gets a response.
FairSpecSession ==
  /\ SpecSession
  /\ WF_vars(\E i \in 1..MaxChains, answer \in CreateAnswers :
               CreateResponse(i, answer[1], answer[2]))
  /\ WF_vars(\E i \in 1..MaxChains, ok \in BOOLEAN, status \in {"400"}, tokenData \in RefreshDatas :
               RefreshResponse(i, ok, status, tokenData))
  /\ WF_vars(\E i \in 1..MaxChains, answer \in CreateAnswers :
               RetryResponse(i, answer[1], answer[2]))

\* Paging through the observations of a session: bundles whose "Pulse"
\* category fills no, one, two or three pages, searched again after each
\* submission.
PagedBundle(n) ==
  [i \in 1..n |-> Observation(i, IF i = 2 THEN "Temperature" ELSE "Pulse", "8867-4",
                              (i % 3) + 1, 0,
                              [NoValue EXCEPT !.valueQuantity = Quantity("60", "bpm")])]

PagedBundles == {PagedBundle(n) : n \in {1, 6, 11, PagedEntries}}

Page ==
  \/ \E k \in 1..2 : selectCategory(k)
  \/ loadMoreVitals
  \/ loadPreviousVitals

NextVitals ==
  \/ Revisit
  \/ ViewVitals
  \/ \E form \in Forms : createNewVital(form)
  \/ \E i \in 1..MaxChains, answer \in CreateAnswers : CreateResponse(i, answer[1], answer[2])
  \/ \E i \in 1..MaxChains, ok \in BOOLEAN, status \in {"500"}, bundle \in PagedBundles :
       ObservationsResponse(i, ok, status, bundle)
  \/ Page

\* A tab that holds the session of a completed launch.
InitVitals == InitSession /\ store = Session(Null)

SpecVitals == InitVitals /\ [][NextVitals]_vars

\* What the vitals page renders of searched observations: the value shapes,
\* the category labels and the timestamps an observation may carry.
Quantities ==
  {NoQuantity, Quantity("120", "mmHg"), Quantity("120", Undefined), Quantity(Undefined, "mmHg")}

Component(q) == [valueQuantity |-> q]

ComponentLists ==
  {<<>>,
   <<Component(Quantity("120", "mmHg"))>>,
   <<Component(Quantity("120", "mmHg")), Component(Quantity("80", "mmHg"))>>,
   <<Component(NoQuantity), Component(Quantity("80", "mmHg"))>>,
   <<Component(NoQuantity), Component(NoQuantity)>>,
   <<Component(NoQuantity), Component(Quantity("80", "mmHg")), Component(Quantity("70", "mmHg"))>>}

Concepts ==
  {NoConcept, [text |-> "normal", display |-> "Normal"], [text |-> Undefined, display |-> "Normal"],
   [text |-> Undefined, display |-> Undefined]}

Values ==
  [valueQuantity : Quantities, component : ComponentLists, valueCodeableConcept : Concepts,
   valueString : {Undefined, "text"}, valueBoolean : {Undefined, "true", "false"}]

ValueBundles == {<<Observation(1, "Pulse", "8867-4", 1, 0, value)>> : value \in Values}

\* <<display, code>> of the first coding.
Codings ==
  {<<"Pulse", "8867-4">>, <<"Pulse", Undefined>>, <<"Temperature", "8310-5">>,
   <<Undefined, "8867-4">>, <<Undefined, Undefined>>}

CodedBundles ==
  UNION {{[i \in 1..n |-> Observation(i, c[i][1], c[i][2], 1, 0, NoValue)] : c \in [1..n -> Codings]}
         : n \in 1..3}

\* <<effectiveDateTime, issued>>, one of them present at least.
Timestamps == {<<1, 0>>, <<2, 0>>, <<0, 1>>, <<0, 2>>, <<1, 2>>}

TimedBundles ==
  {[i \in 1..3 |-> Observation(i, "Pulse", "8867-4", t[i][1], t[i][2], NoValue)]
     : t \in [1..3 -> Timestamps]}

RenderedBundles == ValueBundles \cup CodedBundles \cup TimedBundles

NextRender ==
  \/ Revisit
  \/ ViewVitals
  \/ \E i \in 1..MaxChains, ok \in BOOLEAN, status \in {"500"}, bundle \in RenderedBundles :
       ObservationsResponse(i, ok, status, bundle)
  \/ \E k \in 1..3 : selectCategory(k)

SpecRender == InitVitals /\ [][NextRender]_vars

\* Every call answered with a failure, 401 included, in a tab that starts
\* fresh or with a session that holds a refresh token.
Failures == {"401", "500"}

NextAttempts ==
  \/ \E u \in URLs : PageLoad(u)
  \/ \E ok \in BOOLEAN, status \in Failures, config \in {[authorization_endpoint |-> "auth1",
                                                           token_endpoint |-> "tok1"]} :
       DiscoveryResponse(ok, status, config)
  \/ \E state \in States : ChallengeResponse(TRUE, state)
  \/ \E ok \in BOOLEAN, status \in Failures, tokenData \in TokenDatas :
       TokenResponse(ok, status, "denied", tokenData)
  \/ \E ok \in BOOLEAN, status \in Failures : PatientResponse(ok, status, "Patient/p1")
  \/ ViewVitals
  \/ \E form \in Forms : createNewVital(form)
  \/ \E i \in 1..MaxChains, answer \in CreateAnswers : CreateResponse(i, answer[1], answer[2])
  \/ \E i \in 1..MaxChains, ok \in BOOLEAN, status \in Failures, tokenData \in RefreshDatas :
       RefreshResponse(i, ok, status, tokenData)
  \/ \E i \in 1..MaxChains, answer \in CreateAnswers : RetryResponse(i, answer[1], answer[2])
  \/ \E i \in 1..MaxChains, ok \in BOOLEAN, status \in Failures, bundle \in Bundles :
       ObservationsResponse(i, ok, status, bundle)

InitAttempts == Start /\ env /\ store \in {EmptyStore, Session("rt1")}

SpecAttempts == InitAttempts /\ [][NextAttempts]_vars

\* buildAuthUrl at its await of generateCodeChallenge, in a tab that was
\* launched fresh, with any verifier generateRandomString may have returned.
ChallengeVerifiers == {VerifierWith(digest) : digest \in Digests}

InitChallenge ==
  LET u == [EmptyURL EXCEPT !.iss = "iss1", !.launch = "l1"]
      config == [authorization_endpoint |-> "auth1", token_endpoint |-> "tok1"]
      d == discoverEndpoints(u)
  IN /\ variant \in Variants
     /\ env = TRUE
     /\ loc = "home"
     /\ url = u
     /\ store = EmptyStore
     /\ home = [d.home EXCEPT !.step = "building-auth"]
     /\ \E cv \in ChallengeVerifiers :
          hCall = [d.hCall EXCEPT !.pc = "challenge", !.config = config, !.codeVerifier = cv]
     /\ hLog = d.hLog
     /\ vitals = VitalsInit
     /\ chains = <<>>
     /\ ended = NoChain
     /\ authUrl = NoAuthUrl
     /\ navPending = FALSE
     /\ last = DidWith(Did("DiscoveryResponse", TRUE, "500", Null, TRUE), config)

NextChallenge == \E ok \in BOOLEAN, state \in States : ChallengeResponse(ok, state)

SpecChallenge == InitChallenge /\ [][NextChallenge]_vars

\* A second EHR launch, from another issuer, in a tab that holds the session
\* of a completed launch from "iss1": the launch is followed up to its
\* authorization redirect, the root page is navigated back to, the vitals
\* page is used.
RelaunchUrl == [EmptyURL EXCEPT !.iss = "iss2", !.launch = "l2"]

NextRelaunch ==
  \/ \E u \in {EmptyURL, RelaunchUrl} : PageLoad(u)
  \/ \E ok \in BOOLEAN, config \in {[authorization_endpoint |-> "auth2", token_endpoint |-> "tok2"]} :
       DiscoveryResponse(ok, "500", config)
  \/ \E ok \in BOOLEAN, state \in States : ChallengeResponse(ok, state)
  \/ Browse

SpecRelaunch == InitVitals /\ [][NextRelaunch]_vars

\* The vitals page left and opened again while calls of the instance that
\* was left are outstanding: the mounted instance's chain and up to
\* MaxChains chains of instances that were left.
MaxOverlap == MaxChains + 1

NextResubmit ==
  \/ Revisit
  \/ ViewVitalsWithin(MaxOverlap)
  \/ goBack
  \/ \E form \in Forms : createNewVitalWithin(MaxOverlap, form)
  \/ \E i \in 1..MaxOverlap, answer \in CreateAnswers : CreateResponse(i, answer[1], answer[2])
  \/ \E i \in 1..MaxOverlap, ok \in BOOLEAN, status \in {"500"}, bundle \in Bundles :
       ObservationsResponse(i, ok, status, bundle)

SpecResubmit == InitVitals /\ [][NextResubmit]_vars

\* The vitals page entered, by a page load or from the demographics view,
\* in a tab whose sessionStorage holds a session with any of access_token,
\* patient_id and issuer missing.
EnterStores ==
  {[k \in Keys |-> IF k \in missing THEN Null ELSE Session(Null)[k]]
     : missing \in SUBSET {"access_token", "patient_id", "issuer"}}

InitEnter == Start /\ variant = "part_001" /\ env /\ store \in EnterStores

NextEnter == Revisit \/ LoadVitals \/ Browse

SpecEnter == InitEnter /\ [][NextEnter]_vars

\* ------------------------------------------------------------------ claims
CallbackUrl == Truthy(url.code) /\ Truthy(url.state)
LaunchUrl == Truthy(url.iss) /\ Truthy(url.launch)

\* The step just taken mounted the launch page (a load, or a client-side navigation).
Mounted == last.act \in {"PageLoad", "ReloadAfterReset", "goBack"}

Count(log, kind) == Cardinality({i \in DOMAIN log : log[i].kind = kind})

StateMismatchMessage == <<"Token exchange failed: ", "State mismatch">>
MissingParametersMessage == <<"Missing required parameters. Please launch from EHR.">>

\* C1: a callback whose state differs from the persisted expected state (also
\* when none is persisted) is in the error step with the state-mismatch
\* diagnosis, and the launch page has issued no token POST for it.
C1_StateMismatchIsFatal ==
  (loc = "home" /\ ~navPending /\ CallbackUrl /\ url.state # store["state"])
    => /\ home.step = "error"
       /\ home.error = StateMismatchMessage
       /\ hCall = Idle
       /\ Count(hLog, "token") = 0

C1_Witness ==
  /\ loc = "home" /\ ~navPending /\ CallbackUrl
  /\ store["state"] \in States /\ url.state # store["state"]
  /\ home.step = "error"

\* C2: a submission whose first create POST returned 401 has issued exactly
\* one refresh POST and then exactly one retried create POST of the same
\* observation, carrying the access token the refresh returned.
C2_UnauthorizedRefreshesAndRetriesOnce ==
  (ended.pc = "ended" /\ ended.first = "401")
    => /\ Count(ended.log, "refresh") = 1
       /\ Count(ended.log, "create") = 2
       /\ Len(ended.log) >= 3
       /\ ended.log[2].kind = "refresh"
       /\ ended.log[3].kind = "create"
       /\ ended.log[3].payload = ended.log[1].payload
       /\ ended.log[3].token = ended.newAccessToken

IsRefreshError(message) == \E i \in DOMAIN message : message[i] = "Token refresh failed: "

Submitting(c) == c.live /\ c.pc \in {"create", "refresh", "retry"}

\* C4: a submission issues at most two create POSTs and at most one refresh
\* POST; the submitting flag is true only while the submission has a call
\* outstanding, and when every call gets a response the flag returns to false.
C4_SubmissionEnds ==
  /\ [](\A i \in DOMAIN chains :
          Count(chains[i].log, "create") <= 2 /\ Count(chains[i].log, "refresh") <= 1)
  /\ [](Count(ended.log, "create") <= 2 /\ Count(ended.log, "refresh") <= 1)
  /\ [](vitals.submitting => \E i \in DOMAIN chains : Submitting(chains[i]))
  /\ (vitals.submitting ~> ~vitals.submitting)

C4_Witness ==
  /\ loc = "vitals" /\ ~vitals.submitting
  /\ last.act = "RetryResponse" /\ last.live
  /\ Count(ended.log, "create") = 2 /\ Count(ended.log, "refresh") = 1

\* C5: a (re)load takes the callback branch when code and state are in the
\* URL (no discovery call, even with iss and launch present), else the launch
\* branch when iss and launch are in the URL (even with a cached snapshot),
\* else restores success when a snapshot is cached, else ends in error with
\* the missing-parameters diagnosis.
C5_DispatchPriority ==
  Mounted =>
    IF CallbackUrl
    THEN /\ Count(hLog, "discovery") = 0
         /\ \/ home.step = "exchanging-token" /\ hCall.pc = "token"
            \/ home.step = "error" /\ home.error = StateMismatchMessage
    ELSE IF LaunchUrl
    THEN /\ home.step = "discovering" /\ hCall.pc = "discovery"
         /\ hLog = <<Req("discovery", url.iss, Null, Null, Null)>>
    ELSE IF Truthy(store["patient_data"])
    THEN home.step = "success" /\ hCall = Idle /\ hLog = <<>>
    ELSE home.step = "error" /\ home.error = MissingParametersMessage /\ hLog = <<>>

C5_Witness ==
  /\ Mounted /\ CallbackUrl /\ LaunchUrl
  /\ home.step = "exchanging-token" /\ hCall.pc = "token"

\* C6: mounting the launch page with neither callback nor launch parameters
\* while a snapshot is cached shows that snapshot in the success step, makes
\* no network call and leaves sessionStorage as it was.
C6_RestoreHasNoEffect ==
  [][(Mounted' /\ ~CallbackUrl' /\ ~LaunchUrl' /\ Truthy(store["patient_data"]))
       => /\ home'.step = "success"
          /\ home'.patientData = Parse(store["patient_data"])
          /\ home'.patientData # Null
          /\ hLog' = <<>> /\ hCall' = Idle
          /\ store' = store]_vars

C6_Witness ==
  /\ Mounted /\ ~CallbackUrl /\ ~LaunchUrl
  /\ home.step = "success" /\ home.patientData = "Patient/p1" /\ hLog = <<>>

\* C7: a failed discovery, authorization-URL build, token exchange or patient
\* read leaves the launch page in error with that failure's message, and in
\* success or error only a reset or a navigation changes the step.
C7_FailuresAreTerminal ==
  /\ []((last.act = "DiscoveryResponse" /\ ~last.ok)
          => home.step = "error"
             /\ home.error = <<"Discovery failed: ", "Failed to discover endpoints: ", last.status>>)
  /\ []((last.act = "DiscoveryResponse" /\ last.ok /\ ~env)
          => home.step = "error"
             /\ home.error = <<"Auth URL build failed: ", "Missing environment variables">>)
  /\ []((last.act = "ChallengeResponse" /\ ~last.ok)
          => home.step = "error" /\ Head(home.error) = "Auth URL build failed: ")
  /\ []((last.act = "TokenResponse" /\ ~last.ok)
          => home.step = "error"
             /\ home.error = <<"Token exchange failed: ", "Token exchange failed: ",
                               last.status, " ", last.body>>)
  /\ []((last.act = "PatientResponse" /\ ~last.ok)
          => home.step = "error"
             /\ home.error = <<"Patient fetch failed: ", "Failed to fetch patient: ", last.status>>)
  /\ []((loc = "home" /\ home.step \in {"success", "error"}) => hCall = Idle)
  /\ [][(loc = "home" /\ home.step \in {"success", "error"} /\ loc' = "home"
           /\ ~Mounted' /\ last'.act # "resetSession")
          => home' = home]_vars

C7_Witness ==
  /\ last.act = "TokenResponse" /\ ~last.ok
  /\ home.step = "error" /\ hCall = Idle

\* C8: after a reset sessionStorage is empty and the launch page is in the
\* waiting step, and stays there while no launch arrives.
C8_ResetReturnsToWaiting ==
  (last.act \in {"resetSession", "ReloadAfterReset"})
    => store = EmptyStore /\ home.step = "waiting"

\* C9: when the tab is at the authorization endpoint, the verifier whose
\* challenge was sent, the state that was sent, the issuer and the token
\* endpoint are in sessionStorage.
C9_ContextStoredBeforeRedirect ==
  (loc = "auth")
    => /\ store["code_verifier"] \in Verifiers
       /\ generateCodeChallenge(store["code_verifier"]) = authUrl.code_challenge
       /\ store["state"] \in States /\ store["state"] = authUrl.state
       /\ store["issuer"] \in Issuers /\ store["issuer"] = authUrl.aud
       /\ store["token_endpoint"] # Null

C9_Witness ==
  /\ loc = "auth" /\ last.act = "ChallengeResponse"
  /\ store["state"] = "s2" /\ store["code_verifier"] = "v2"

Responses == {"CreateResponse", "RefreshResponse", "RetryResponse", "ObservationsResponse",
              "DiscoveryResponse", "ChallengeResponse", "TokenResponse", "PatientResponse"}

Kinds(log) == [i \in DOMAIN log |-> log[i].kind]

\* C11: the requests the launch page has issued since it mounted are, in
\* order, the call it is waiting for preceded only by calls that resolved:
\* one call is outstanding at most. The authorization redirect is made only
\* after the discovery call succeeded, and the patient read is issued only
\* by the step in which the token POST resolved successfully.
C11_OneCallAtATime ==
  /\ [](loc = "home" =>
          CASE hCall.pc = "discovery" -> Kinds(hLog) = <<"discovery">>
            [] hCall.pc = "challenge" -> Kinds(hLog) = <<"discovery">>
                                         /\ last.act = "DiscoveryResponse" /\ last.ok
            [] hCall.pc = "token" -> Kinds(hLog) = <<"token">>
            [] hCall.pc = "patient" -> Kinds(hLog) = <<"token", "patient">>
            [] OTHER -> Kinds(hLog) \in {<<>>, <<"discovery">>, <<"token">>, <<"token", "patient">>})
  /\ [](loc = "auth" => Kinds(hLog) = <<"discovery", "navigate">>)
  /\ [][(hLog' # hLog /\ ~Mounted' /\ last'.act # "ViewVitals")
          => /\ Len(hLog') = Len(hLog) + 1 /\ SubSeq(hLog', 1, Len(hLog)) = hLog
             /\ last'.ok
             /\ \/ hLog'[Len(hLog')].kind = "patient" /\ last'.act = "TokenResponse"
                   /\ hCall.pc = "token" /\ hCall'.pc = "patient"
                \/ hLog'[Len(hLog')].kind = "navigate" /\ last'.act = "ChallengeResponse"
                   /\ hCall.pc = "challenge"]_vars

C11_Witness ==
  /\ loc = "home" /\ hCall.pc = "patient" /\ last.act = "TokenResponse" /\ last.ok
  /\ Kinds(hLog) = <<"token", "patient">>

NoPatientContextMessage ==
  <<"No patient context found in token. This app must be launched with a patient context.">>

\* C12: when the token POST succeeded and the response carries no patient
\* identifier, the launch page is in the error step with the no-patient-context
\* diagnosis and has issued no patient read.
C12_NoPatientContextIsFatal ==
  (last.act = "TokenResponse" /\ last.ok /\ ~Truthy(last.data.patient))
    => /\ home.step = "error"
       /\ home.error = NoPatientContextMessage
       /\ hCall = Idle
       /\ Count(hLog, "patient") = 0

\* C13: when the token POST of a callback succeeded with a patient
\* identifier, the launch page has issued one token POST and one patient read
\* of that patient with the returned access token, which is persisted; when
\* the patient read succeeded too, the page is in success and the snapshot
\* and the patient id of the token response are persisted.
C13_CallbackReachesSuccess ==
  /\ (last.act = "TokenResponse" /\ last.ok /\ Truthy(last.data.patient))
       => /\ hCall.pc = "patient"
          /\ Kinds(hLog) = <<"token", "patient">>
          /\ hLog[2].a = last.data.patient /\ hLog[2].token = last.data.access_token
          /\ store["access_token"] = last.data.access_token
  /\ (last.act = "PatientResponse" /\ last.ok)
       => /\ home.step = "success"
          /\ Kinds(hLog) = <<"token", "patient">>
          /\ store["access_token"] = hLog[2].token
          /\ Truthy(store["patient_data"]) /\ Parse(store["patient_data"]) = home.patientData
          /\ store["patient_id"] = hLog[2].a

\* C14: after a successful token exchange whose response carries a refresh
\* token, sessionStorage holds that refresh token together with the access token.
C14_RefreshTokenStored ==
  (last.act = "TokenResponse" /\ last.ok /\ Truthy(last.data.refresh_token))
    => /\ store["access_token"] = last.data.access_token
       /\ store["refresh_token"] = last.data.refresh_token

NoRefreshTokenMessage == <<"Token refresh failed: ", "No refresh token available">>

\* C15: a successful refresh response replaces the stored access token by the
\* returned one, replaces the stored refresh token only when the response
\* carries one, and changes no other key; a failed refresh response leaves
\* sessionStorage unchanged; with no refresh token stored the refresh fails
\* without a request and sessionStorage is unchanged.
C15_RefreshFrame ==
  /\ [][(last'.act = "RefreshResponse" /\ last'.ok)
          => store' = [store EXCEPT
                         !["access_token"] = last'.data.access_token,
                         !["refresh_token"] = IF Truthy(last'.data.refresh_token)
                                              THEN last'.data.refresh_token ELSE @]]_vars
  /\ [][(last'.act = "RefreshResponse" /\ ~last'.ok)
          => store' = store /\ ended'.pc = "ended" /\ IsRefreshError(ended'.error)]_vars
  /\ [][(last'.act = "CreateResponse" /\ last'.status = "401"
           /\ ~(Truthy(store["refresh_token"]) /\ Truthy(store["token_endpoint"])))
          => /\ store' = store
             /\ ended'.pc = "ended" /\ ended'.error = NoRefreshTokenMessage
             /\ Count(ended'.log, "refresh") = 0]_vars

C15_Witness ==
  /\ last.act = "RefreshResponse" /\ last.ok /\ ~Truthy(last.data.refresh_token)
  /\ store["access_token"] = "at2" /\ store["refresh_token"] = "rt1"

Malformed(config) ==
  ~Truthy(config.authorization_endpoint) \/ ~Truthy(config.token_endpoint)

\* C16: when the fetched configuration lacks the authorization endpoint or the
\* token endpoint, the launch page is in the error step with nothing
\* persisted, and the tab is never sent to an authorization endpoint that the
\* configuration did not carry.
C16_MalformedConfigIsFatal ==
  /\ (last.act = "DiscoveryResponse" /\ last.ok /\ Malformed(last.data))
       => home.step = "error" /\ hCall = Idle /\ loc = "home"
  /\ (loc = "auth")
       => Truthy(authUrl.endpoint) /\ store["token_endpoint"] # "undefined"

\* C17: a discovery response with a non-success status puts the launch page
\* in the error step with the discovery diagnosis, changes nothing in
\* sessionStorage and makes no request and no navigation.
C17_DiscoveryFailureHasNoEffect ==
  [][(last'.act = "DiscoveryResponse" /\ ~last'.ok)
       => /\ home'.step = "error"
          /\ home'.error = <<"Discovery failed: ", "Failed to discover endpoints: ", last'.status>>
          /\ hCall' = Idle
          /\ store' = store /\ loc' = "home" /\ hLog' = hLog /\ authUrl' = authUrl]_vars

C17_Witness ==
  /\ last.act = "DiscoveryResponse" /\ ~last.ok
  /\ home.step = "error" /\ loc = "home" /\ Kinds(hLog) = <<"discovery">>

\* C18: with the client id or the redirect URI missing, a successful discovery
\* ends in the error step with the missing-environment diagnosis; the
\* verifier, state, issuer and token endpoint are never written and the tab
\* is never sent to the authorization endpoint.
C18_MissingClientIdentityIsFatal ==
  /\ ((last.act = "DiscoveryResponse" /\ last.ok /\ ~env)
        => /\ home.step = "error"
           /\ home.error = <<"Auth URL build failed: ", "Missing environment variables">>
           /\ hCall = Idle)
  /\ (~env => /\ loc # "auth" /\ authUrl = NoAuthUrl
              /\ Count(hLog, "navigate") = 0
              /\ \A k \in {"code_verifier", "state", "issuer", "token_endpoint"} : store[k] = Null)

C18_Witness ==
  /\ ~env /\ last.act = "DiscoveryResponse" /\ last.ok /\ ~Malformed(last.data)
  /\ home.step = "error"

\* C19: the authorization URL the tab is sent to carries the launch token
\* of the launch URL, the state and the audience that were persisted (the
\* expected state and the issuer), and code_challenge_method S256.
C19_AuthorizationParameters ==
  (loc = "auth")
    => /\ Truthy(url.launch) /\ authUrl.launch = url.launch
       /\ authUrl.state = store["state"]
       /\ authUrl.aud = store["issuer"]
       /\ authUrl.code_challenge_method = "S256"

\* The token POST of the callback the page was loaded with has succeeded.
Exchanged ==
  /\ loc = "home" /\ CallbackUrl
  /\ Count(hLog, "token") = 1 /\ hCall.pc # "token"
  /\ ~(home.step = "error" /\ home.error # <<>> /\ Head(home.error) = "Token exchange failed: ")

\* C20: loading again the callback URL whose code has been exchanged issues
\* no token POST.
C20_CallbackConsumedOnce ==
  [][(Exchanged /\ last'.act = "PageLoad" /\ url' = url) => Count(hLog', "token") = 0]_vars

Selected == loc = "vitals" /\ vitals.selectedCategory # NoCategory
Total == Len(vitals.selectedCategory.vitals)
Min(a, b) == IF a < b THEN a ELSE b

\* The observations of seq at the 0-based positions from .. to - 1.
Window(seq, from, to) == [i \in 1..(to - from) |-> seq[from + i]]

PagerActs == {"selectCategory", "loadMoreVitals", "loadPreviousVitals"}

\* C21: with a category selected, the displayed window is the selected
\* category's list from index page*5 (inclusive) to min(page*5+5, total)
\* (exclusive), with 0 <= page and page*5 < total.
C21_WindowIsThePage ==
  Selected =>
    /\ 0 <= vitals.currentPage
    /\ vitals.currentPage * 5 < Total
    /\ vitals.categoryVitals =
         Window(vitals.selectedCategory.vitals, vitals.currentPage * 5,
                Min(vitals.currentPage * 5 + 5, Total))

C21_Witness ==
  /\ Selected /\ last.act = "loadPreviousVitals"
  /\ vitals.currentPage = 1 /\ Total = 12 /\ Len(vitals.categoryVitals) = 5

\* C22: selecting a category, from any page of any selection, sets the page
\* index to 0 and the displayed window to the first 5 (or fewer) observations
\* of the category that was selected.
C22_SelectResetsPage ==
  [][(last'.act = "selectCategory")
       => /\ vitals'.selectedCategory.name = last'.data.name
          /\ \E k \in DOMAIN getVitalCategories(vitals.vitalsData) :
               vitals'.selectedCategory = getVitalCategories(vitals.vitalsData)[k]
          /\ vitals'.currentPage = 0
          /\ vitals'.categoryVitals =
               Window(vitals'.selectedCategory.vitals, 0,
                      Min(5, Len(vitals'.selectedCategory.vitals)))]_vars

C22_Witness ==
  /\ last.act = "selectCategory" /\ last.data.from = 2 /\ last.data.name = "Pulse"
  /\ vitals.currentPage = 0 /\ Len(vitals.categoryVitals) = 5

\* C23: hasMore is true exactly when (page+1)*5 < total of the selected
\* category; loadMoreVitals without more (or without a selection) changes
\* neither the page index nor the window, and with more it advances one page;
\* paging makes no request and writes nothing to sessionStorage.
C23_PagingIsGuarded ==
  /\ [](loc = "vitals" => (hasMoreVitals(vitals) <=> (Selected /\ (vitals.currentPage + 1) * 5 < Total)))
  /\ [][(last'.act = "loadMoreVitals")
          => IF Selected /\ (vitals.currentPage + 1) * 5 < Total
             THEN vitals'.currentPage = vitals.currentPage + 1
             ELSE vitals' = vitals]_vars
  /\ [][(last'.act \in PagerActs)
          => chains' = chains /\ ended' = ended /\ hLog' = hLog /\ store' = store]_vars

C23_Witness ==
  /\ Selected /\ last.act = "loadMoreVitals" /\ ~last.ok
  /\ vitals.currentPage = 2 /\ Total = 12 /\ Len(vitals.categoryVitals) = 2

\* The value fields of the observations in the displayed window.
Displayed ==
  IF Selected /\ CategoriesShown
  THEN {vitals.categoryVitals[i].value : i \in DOMAIN vitals.categoryVitals}
  ELSE {}

ComponentQuantities(value) ==
  {value.component[i].valueQuantity : i \in {j \in DOMAIN value.component :
                                               HasValue(value.component[j].valueQuantity)}}

\* The first shape, in priority order, that the observation carries.
Shape(value) ==
  IF HasValue(value.valueQuantity) THEN "quantity"
  ELSE IF ComponentQuantities(value) # {} THEN "component"
  ELSE IF value.valueCodeableConcept # NoConcept THEN "concept"
  ELSE IF value.valueString # Undefined THEN "string"
  ELSE IF value.valueBoolean # Undefined THEN "boolean"
  ELSE "none"

\* C24: every displayed observation is formatted from the first shape it
\* carries in the order single quantity, component quantities, coded concept,
\* string, boolean (the single quantity when it also has components), and as
\* "No value available" when it carries none of them.
C24_FormatPicksFirstShape ==
  \A value \in Displayed :
    LET shown == formatVitalValue(value)
    IN CASE Shape(value) = "quantity" ->
              shown = <<value.valueQuantity.value, " ",
                        IF value.valueQuantity.unit = Undefined THEN "" ELSE value.valueQuantity.unit>>
         [] Shape(value) = "component" ->
              Len(shown) >= 3 /\ \E q \in ComponentQuantities(value) : shown[1] = q.value
         [] Shape(value) = "concept" ->
              shown \in {<<value.valueCodeableConcept.text>>, <<value.valueCodeableConcept.display>>,
                         <<"Coded value">>}
              /\ shown # <<Undefined>>
         [] Shape(value) = "string" -> shown = <<value.valueString>>
         [] Shape(value) = "boolean" ->
              shown = IF value.valueBoolean = "true" THEN <<"Yes">> ELSE <<"No">>
         [] OTHER -> shown = <<"No value available">>

C24_Witness ==
  \E value \in Displayed :
    /\ HasValue(value.valueQuantity) /\ Len(value.component) = 2
    /\ value.valueCodeableConcept # NoConcept
    /\ formatVitalValue(value) = <<"120", " ", "mmHg">>

\* C25: a displayed observation with no single quantity and exactly two
\* component quantities is shown as both component values joined by " / ",
\* in component order.
C25_TwoComponentsJoined ==
  \A value \in Displayed :
    (/\ ~HasValue(value.valueQuantity)
     /\ Len(value.component) = 2
     /\ HasValue(value.component[1].valueQuantity)
     /\ HasValue(value.component[2].valueQuantity))
      => formatVitalValue(value) =
           <<value.component[1].valueQuantity.value, " ", value.component[1].valueQuantity.unit,
             " / ",
             value.component[2].valueQuantity.value, " ", value.component[2].valueQuantity.unit>>

\* The categories the page renders from the searched bundle.
Categories == getVitalCategories(vitals.vitalsData)

RECURSIVE Sum(_)
Sum(seq) == IF seq = <<>> THEN 0 ELSE Head(seq) + Sum(Tail(seq))

\* Position in the searched bundle of the j-th observation of category k.
PositionOf(k, j) == CHOOSE i \in DOMAIN vitals.vitalsData : vitals.vitalsData[i] = Categories[k].vitals[j]

\* C26: the rendered categories partition the searched bundle: every entry
\* is in exactly one category, at one position, and that category is named
\* by the first coding's display label, else its code, else "Unknown"; each
\* count is the number of observations of its category and the counts add up
\* to the number of entries.
C26_CategoriesPartition ==
  (loc = "vitals") =>
    /\ \A i \in DOMAIN vitals.vitalsData :
         LET o == vitals.vitalsData[i]
             label == IF o.display # Undefined THEN o.display
                      ELSE IF o.code # Undefined THEN o.code ELSE "Unknown"
             holders == {kj \in {<<k, j>> : k \in DOMAIN Categories, j \in DOMAIN vitals.vitalsData} :
                           /\ kj[2] \in DOMAIN Categories[kj[1]].vitals
                           /\ Categories[kj[1]].vitals[kj[2]] = o}
         IN /\ Cardinality(holders) = 1
            /\ \A kj \in holders : Categories[kj[1]].name = label
    /\ \A k \in DOMAIN Categories : Categories[k].count = Len(Categories[k].vitals)
    /\ \A k, l \in DOMAIN Categories : Categories[k].name = Categories[l].name => k = l
    /\ Sum([k \in DOMAIN Categories |-> Categories[k].count]) = Len(vitals.vitalsData)

C26_Witness ==
  /\ loc = "vitals" /\ Len(vitals.vitalsData) = 3 /\ Len(Categories) = 2
  /\ \E k \in DOMAIN Categories : Categories[k].name = "8867-4" /\ Categories[k].count = 2
  /\ \E k \in DOMAIN Categories : Categories[k].name = "Unknown"

\* C27: in each rendered category the observations are in descending order
\* of effective time (the issued time when the effective time is absent),
\* and observations of equal time are in the order of the searched bundle.
C27_SortedByEffectiveTime ==
  (loc = "vitals") =>
    \A k \in DOMAIN Categories :
      \A i, j \in DOMAIN Categories[k].vitals :
        i < j =>
          LET a == Categories[k].vitals[i]
              b == Categories[k].vitals[j]
              ta == IF a.effectiveDateTime # 0 THEN a.effectiveDateTime ELSE a.issued
              tb == IF b.effectiveDateTime # 0 THEN b.effectiveDateTime ELSE b.issued
          IN /\ ta >= tb
             /\ ta = tb => PositionOf(k, i) < PositionOf(k, j)

C27_Witness ==
  /\ loc = "vitals" /\ Len(Categories) = 1 /\ Len(Categories[1].vitals) = 3
  /\ Categories[1].vitals[1].id = 2 /\ Categories[1].vitals[1].effectiveDateTime = 0
  /\ Categories[1].vitals[2].id = 1 /\ Categories[1].vitals[3].id = 3
  /\ Categories[1].vitals[2].effectiveDateTime = 1 /\ Categories[1].vitals[3].issued = 1
  /\ Categories[1].vitals[3].effectiveDateTime = 0

\* A search or a submission of the mounted vitals page has just failed, with
\* observations fetched earlier.
FailedInPlace ==
  /\ loc = "vitals" /\ last.live /\ ~last.ok /\ chains = <<>>
  /\ last.act \in {"ObservationsResponse", "CreateResponse"}
  /\ vitals.vitalsData # <<>>

\* C28: after a failed search or a failed submission the vitals page still
\* lets the user select a category, page through the observations fetched
\* earlier and start another submission.
C28_FailureIsRecoverable ==
  FailedInPlace =>
    /\ ENABLED (\E k \in 1..2 : selectCategory(k))
    /\ ENABLED loadMoreVitals
    /\ ENABLED (\E form \in Forms : createNewVital(form))

\* The request a response of the launch page answers.
RequestOf(act) ==
  IF act = "DiscoveryResponse" THEN "discovery"
  ELSE IF act = "TokenResponse" THEN "token" ELSE "patient"

\* C29: a failure answer (401 included) to discovery, token exchange or
\* patient read leaves the launch page in error after the one request of
\* that kind, and the launch page never refreshes; a failed observation
\* search ends with its error after one search request and nothing after it;
\* a create POST that fails with another status than 401 ends the submission
\* with its error after that single request.
C29_OnlyCreateRetries ==
  /\ (last.act \in {"DiscoveryResponse", "TokenResponse", "PatientResponse"} /\ ~last.ok)
       => /\ home.step = "error" /\ home.error # <<>> /\ hCall = Idle
          /\ Count(hLog, RequestOf(last.act)) = 1
          /\ hLog[Len(hLog)].kind = RequestOf(last.act)
  /\ Count(hLog, "refresh") = 0
  /\ (last.act = "ObservationsResponse" /\ ~last.ok)
       => /\ ended.pc = "ended"
          /\ ended.error = <<"Vitals fetch failed: ", "Failed to fetch vitals: ", last.status>>
          /\ Count(ended.log, "observations") = 1
          /\ ended.log[Len(ended.log)].kind = "observations"
          /\ (last.live => vitals.error = ended.error)
  /\ (last.act = "CreateResponse" /\ ~last.ok /\ last.status # "401")
       => /\ ended.pc = "ended"
          /\ Kinds(ended.log) = <<"create">>
          /\ ended.error = <<"Failed to create vital: ", last.status, " ", last.body>>
          /\ (last.live => vitals.error = <<"Failed to create vital: ">> \o ended.error)

C29_Witness ==
  /\ last.act = "ObservationsResponse" /\ ~last.ok /\ last.status = "401"
  /\ Truthy(store["refresh_token"])
  /\ ended.pc = "ended" /\ Kinds(ended.log) = <<"observations">>

\* The token of the create POST issued last by an async function.
LastCreateToken(log) ==
  log[CHOOSE i \in DOMAIN log :
        log[i].kind = "create" /\ \A j \in DOMAIN log : log[j].kind = "create" => j <= i].token

\* C30: a create POST that succeeds, at the first attempt or at the retry,
\* with an empty body or not, is followed by one observation search with the
\* access token of that POST; a create POST that fails is followed by none,
\* and no submission searches twice.
C30_SuccessRefetchesOnce ==
  /\ [][(last'.act \in {"CreateResponse", "RetryResponse"} /\ last'.ok)
          => \E i \in DOMAIN chains :
               /\ chains[i].pc \in {"create", "retry"}
               /\ Count(chains[i].log, "observations") = 0
               /\ chains'[i].pc = "fetch"
               /\ chains'[i].log =
                    Append(chains[i].log,
                           Req("observations", chains[i].issuer, LastCreateToken(chains[i].log),
                               chains[i].patientId, Null))]_vars
  /\ [][(last'.act \in {"CreateResponse", "RetryResponse"} /\ ~last'.ok)
          => \E i \in DOMAIN chains :
               /\ chains[i].pc \in {"create", "retry"}
               /\ \/ /\ Len(chains') = Len(chains)
                     /\ chains'[i].pc = "refresh"
                     /\ Count(chains'[i].log, "observations") = 0
                  \/ /\ Len(chains') = Len(chains) - 1
                     /\ ended'.pc = "ended"
                     /\ Count(ended'.log, "observations") = 0]_vars
  /\ [](Count(ended.log, "observations") <= 1)
  /\ [](\A i \in DOMAIN chains : Count(chains[i].log, "observations") <= 1)

C30_Witness ==
  /\ last.act = "RetryResponse" /\ last.ok /\ last.body = ""
  /\ \E i \in DOMAIN chains :
       /\ chains[i].pc = "fetch" /\ Kinds(chains[i].log) = <<"create", "refresh", "create", "observations">>
       /\ chains[i].log[4].token = "at2" /\ chains[i].log[1].token = "at1"

\* C31: no write to sessionStorage stores an empty or absent value: every
\* key that has been written holds a value its response or input carried,
\* never the string conversion of undefined or null, never the empty string.
C31_NoAbsentValueStored == \A k \in Keys : store[k] \notin {"undefined", "null", ""}

\* The URL-safe base64 alphabet (RFC 4648, section 5).
UrlSafeAlphabet ==
  [i \in 1..64 |-> IF i = 63 THEN "-" ELSE IF i = 64 THEN "_" ELSE Base64Alphabet[i]]

\* Bit j (from 0, most significant first) of a byte string, 0 beyond its end.
Bit(bytes, j) ==
  IF j < 8 * Len(bytes) THEN (bytes[(j \div 8) + 1] \div (2 ^ (7 - (j % 8)))) % 2 ELSE 0

\* Unpadded URL-safe base64: one character per six bits, the last group
\* filled with zero bits.
UrlSafeBase64(bytes) ==
  [k \in 1..((8 * Len(bytes) + 5) \div 6) |->
     UrlSafeAlphabet[32 * Bit(bytes, 6 * k - 6) + 16 * Bit(bytes, 6 * k - 5)
                     + 8 * Bit(bytes, 6 * k - 4) + 4 * Bit(bytes, 6 * k - 3)
                     + 2 * Bit(bytes, 6 * k - 2) + Bit(bytes, 6 * k - 1) + 1]]

\* C32: the challenge sent in the authorization redirect is the unpadded
\* URL-safe base64 of the SHA-256 digest of the verifier that was stored,
\* and deriving the challenge again from that verifier yields the same
\* challenge.
C32_ChallengeIsUrlSafeBase64OfDigest ==
  (last.act = "ChallengeResponse" /\ last.ok)
    => /\ authUrl.code_challenge = UrlSafeBase64(Sha256(store["code_verifier"]))
       /\ generateCodeChallenge(store["code_verifier"]) = authUrl.code_challenge

\* A two-byte digest whose base64 has "+", "/" and one "=".
C32_Witness ==
  /\ last.act = "ChallengeResponse" /\ last.ok
  /\ Sha256(store["code_verifier"]) = <<251, 255>>
  /\ btoa(<<251, 255>>) = <<"+", "/", "8", "=">>
  /\ authUrl.code_challenge = <<"-", "_", "8">>

\* C33: the access token, patient id and patient snapshot in sessionStorage
\* belong to the launch whose issuer is stored. Under SpecRelaunch the only
\* completed launch is the one from "iss1" (token "at1", patient "p1"), so
\* the token stays paired with "iss1" in sessionStorage, the restored page
\* shows the snapshot under "iss1", and the vitals page sends "at1" to "iss1" only.
C33_SessionBelongsToStoredIssuer ==
  /\ (store["access_token"] = "at1" \/ store["patient_id"] = "p1"
        \/ store["patient_data"] = Stringify("Patient/p1"))
       => store["issuer"] = "iss1" /\ store["iss"] = "iss1"
  /\ (loc = "home" /\ home.step = "success" /\ home.patientData = "Patient/p1")
       => home.issuer = "iss1"
  /\ \A i \in DOMAIN chains : \A j \in DOMAIN chains[i].log :
       chains[i].log[j].token = "at1" => chains[i].log[j].url = "iss1"

\* C34: whenever a category is selected on the main view, the selected
\* category is one of the categories of the bundle held now, and the
\* displayed window is sliced from that category's list; the search that
\* follows a successful create is the only step that replaces the bundle
\* under a selection.
C34_SelectionFollowsBundle ==
  (Selected /\ CategoriesShown)
    => \E k \in DOMAIN Categories :
         /\ vitals.selectedCategory = Categories[k]
         /\ vitals.categoryVitals =
              Window(Categories[k].vitals, vitals.currentPage * VITALS_PER_PAGE,
                     Min(vitals.currentPage * VITALS_PER_PAGE + VITALS_PER_PAGE,
                         Len(Categories[k].vitals)))

\* C35: a token POST of the mounted launch page carries the verifier whose
\* challenge went out in the most recent authorization redirect, and the
\* state of the callback it answers is the state of that redirect; a
\* callback that carries another state (the state of a launch that a later
\* launch has superseded) is rejected with a state mismatch and posts nothing.
C35_ExchangeBelongsToLastRedirect ==
  /\ \A j \in DOMAIN hLog :
       hLog[j].kind = "token"
         => /\ generateCodeChallenge(hLog[j].b) = authUrl.code_challenge
            /\ url.state = authUrl.state
  /\ (last.act = "PageLoad" /\ CallbackUrl /\ url.state # authUrl.state)
       => /\ Count(hLog, "token") = 0
          /\ home.step = "error"
          /\ home.error = StateMismatchMessage

\* The redirect went out with state "s2" and the challenge of "v2"; the
\* callback of a launch that used state "s1" is rejected.
C35_Witness ==
  /\ last.act = "PageLoad" /\ CallbackUrl /\ url.state = "s1"
  /\ authUrl.state = "s2" /\ authUrl.code_challenge = generateCodeChallenge("v2")
  /\ store["state"] = "s2" /\ store["code_verifier"] = "v2"
  /\ home.error = StateMismatchMessage /\ hLog = <<>>

\* A submission of the vitals page that has a create, refresh or retry call
\* outstanding, whether or not the instance that started it is still mounted.
Outstanding == {i \in DOMAIN chains : chains[i].pc \in {"create", "refresh", "retry"}}

\* C36: at most one submission is in progress at any time: no create POST
\* is started while a create, refresh or retry call of an earlier submission
\* is outstanding, and while the mounted instance's own submission is in
\* progress the submitting flag, which disables the Create button, is true.
C36_OneSubmissionAtATime ==
  /\ Cardinality(Outstanding) <= 1
  /\ \A i \in Outstanding : chains[i].live => vitals.submitting

NoPatientSessionMessage == <<"No patient session found. Please launch from EHR.">>

AllPresent == Truthy(store["access_token"]) /\ Truthy(store["patient_id"]) /\ Truthy(store["issuer"])

\* C37: the vitals page entered with any of access_token, patient_id and
\* issuer missing reports the no-patient-session error, is not loading and
\* has no call outstanding, and issues none while that error is shown; entered
\* with all three present it issues the observation search, which is never
\* issued without a token, a patient and an issuer.
C37_NoSessionNoCall ==
  /\ (last.act \in {"LoadVitals", "ViewVitals"} /\ ~AllPresent)
       => /\ vitals.error = NoPatientSessionMessage /\ ~vitals.loading
          /\ \A i \in DOMAIN chains : ~chains[i].live
  /\ (last.act \in {"LoadVitals", "ViewVitals"} /\ AllPresent)
       => /\ vitals.error = <<>> /\ vitals.loading
          /\ \E i \in DOMAIN chains : chains[i].live /\ Kinds(chains[i].log) = <<"observations">>
  /\ (loc = "vitals" /\ vitals.error = NoPatientSessionMessage)
       => \A i \in DOMAIN chains : ~chains[i].live
  /\ \A i \in DOMAIN chains : \A j \in DOMAIN chains[i].log :
       chains[i].log[j].kind = "observations"
         => /\ Truthy(chains[i].log[j].token) /\ Truthy(chains[i].log[j].a)
            /\ Truthy(chains[i].log[j].url)

\* The page is loaded with a token and an issuer but no patient id.
C37_Witness ==
  /\ last.act = "LoadVitals" /\ loc = "vitals"
  /\ store["access_token"] = "at1" /\ store["issuer"] = "iss1" /\ store["patient_id"] = Null
  /\ vitals.error = NoPatientSessionMessage /\ ~vitals.loading /\ chains = <<>>

====
